---------------------------- MODULE Spec2Model ----------------------------
(***************************************************************************)
(* svg2polylines: conversion of the path data of an SVG document into     *)
(* polylines.  The model follows src/svg2polylines/src/lib.rs: the        *)
(* CurrentLine buffer, parse_path_token, parse_path, simplify and parse.  *)
(*                                                                         *)
(* Coordinates are f64 in the source.  The model keeps them as integers   *)
(* counted in quarters (1.0 is 4), so that 0.5 is 2 and a difference of   *)
(* 0.25 is 1; additions and comparisons are then exact, as they are in    *)
(* f64 for the small values used here.                                    *)
(***************************************************************************)
EXTENDS Integers, Sequences, FiniteSets, TLC

\* ------------------------------------------------------------------ bounds
\* number of path tokens an unconstrained document delivers in total
MaxTokens == 3
\* number of scanner tokens an unconstrained document delivers
MaxDocTokens == 2

\* ------------------------------------------------------- program constants
\* const FLATTENING_TOLERANCE: f32 = 0.5 (in quarters)
FLATTENING_TOLERANCE == 2

\* --------------------------------------------------------------- helpers
Abs(n) == IF n < 0 THEN -n ELSE n

Last(s) == s[Len(s)]

\* CoordinatePair::new
CoordinatePair(x, y) == [x |-> x, y |-> y]

\* a point given in whole units, as the tests write it
P(x, y) == CoordinatePair(4 * x, 4 * y)

\* Option<T>: None is <<>>, Some(v) is <<v>>
None == <<>>
Some(v) == <<v>>

\* ----------------------------------------------------------- CurrentLine
\* CurrentLine::new
CurrentLineNew == [line |-> <<>>, prev_end |-> None]

add_absolute(cl, pair) == [cl EXCEPT !.line = Append(@, pair)]

add_relative(cl, pair) ==
    IF cl.line # <<>>
    THEN add_absolute(cl, CoordinatePair(Last(cl.line).x + pair.x,
                                         Last(cl.line).y + pair.y))
    ELSE IF cl.prev_end # None
    THEN add_absolute(cl, CoordinatePair(cl.prev_end[1].x + pair.x,
                                         cl.prev_end[1].y + pair.y))
    ELSE add_absolute(cl, pair)

last_pair(cl) == IF cl.line = <<>> THEN None ELSE Some(Last(cl.line))

last_x(cl) == IF cl.line = <<>> THEN None ELSE Some(Last(cl.line).x)

last_y(cl) == IF cl.line = <<>> THEN None ELSE Some(Last(cl.line).y)

\* the pair is compared with the last point as given, before a relative
\* pair is resolved
add(cl, abs, pair) ==
    LET prev  == last_pair(cl)
        addit == IF prev # None
                 THEN ~ (/\ Abs(pair.x - prev[1].x) < FLATTENING_TOLERANCE
                         /\ Abs(pair.y - prev[1].y) < FLATTENING_TOLERANCE)
                 ELSE TRUE
    IN  IF addit
        THEN (IF abs THEN add_absolute(cl, pair) ELSE add_relative(cl, pair))
        ELSE cl

is_valid_len1(cl) == Len(cl.line) > 0

is_valid(cl) == Len(cl.line) > 1

close_last(cl) ==
    IF Len(cl.line) < 2
    THEN [res |-> "Err", cl |-> cl]
    ELSE [res |-> "Ok",
          cl  |-> [line     |-> Append(cl.line, Last(cl.line)),
                   prev_end |-> Some(Last(cl.line))]]

close_len1(cl) ==
    IF Len(cl.line) < 1
    THEN [res |-> "Err", cl |-> cl]
    ELSE [res |-> "Ok",
          cl  |-> [line     |-> Append(cl.line, cl.line[1]),
                   prev_end |-> Some(cl.line[1])]]

close(cl) ==
    IF Len(cl.line) < 2
    THEN [res |-> "Err", cl |-> cl]
    ELSE [res |-> "Ok",
          cl  |-> [line     |-> Append(cl.line, cl.line[1]),
                   prev_end |-> Some(cl.line[1])]]

finish_keeping(cl) == [ret |-> cl.line, cl |-> cl]

\* finish swaps the buffer out: the old buffer is returned, the new is empty
finish(cl) == [ret |-> cl.line, cl |-> [cl EXCEPT !.line = <<>>]]


\* ------------------------------------------------------ Bezier flattening
\* lyon_geom's flattened(tolerance) is called with the control polygon in
\* absolute coordinates and yields the points of the approximation after
\* `from`, the last one being `to`.  A control polygon whose control points
\* lie on the chord is flat and yields `to` alone; any other yields the
\* curve point at t = 1/2 and then `to`.
\* `v as f32`: the nearest value with a 24-bit significand, ties to even.
\* Quarters scale by a power of two, so rounding the count of quarters is
\* rounding the value.  `v as f64` of an f32 is exact.
RECURSIVE Ulp(_, _)
Ulp(a, u) == IF a \div u < 16777216 THEN u ELSE Ulp(a, 2 * u)

as_f32(v) ==
    LET a   == Abs(v)
        u   == Ulp(a, 1)
        lo  == (a \div u) * u
        r   == a - lo
        up  == IF 2 * r > u THEN TRUE
               ELSE IF 2 * r < u THEN FALSE
               ELSE (lo \div u) % 2 = 1
        m   == IF up THEN lo + u ELSE lo
    IN  IF v < 0 THEN 0 - m ELSE m

\* Point::new(x as f32, y as f32)
Point(x, y) == CoordinatePair(as_f32(x), as_f32(y))

Cross(a, b, c) == (b.x - a.x) * (c.y - a.y) - (b.y - a.y) * (c.x - a.x)

CubicFlattened(from, ctrl1, ctrl2, to) ==
    IF Cross(from, to, ctrl1) = 0 /\ Cross(from, to, ctrl2) = 0
    THEN << to >>
    ELSE << Point((from.x + 3 * ctrl1.x + 3 * ctrl2.x + to.x) \div 8,
                  (from.y + 3 * ctrl1.y + 3 * ctrl2.y + to.y) \div 8),
            to >>

QuadraticFlattened(from, ctrl, to) ==
    IF Cross(from, to, ctrl) = 0
    THEN << to >>
    ELSE << Point((from.x + 2 * ctrl.x + to.x) \div 4,
                  (from.y + 2 * ctrl.y + to.y) \div 4),
            to >>

\* for point in curve.flattened(..) { current_line.add_absolute(point) }
RECURSIVE AddAll(_, _)
AddAll(cl, pts) ==
    IF pts = <<>> THEN cl
    ELSE AddAll(add_absolute(cl, Head(pts)), Tail(pts))

\* ------------------------------------------------------- parse_path_token
\* The result of a call: res is "Ok" or "Err", cl and lines are the
\* arguments current_line and lines as the call leaves them.
Result(res, cl, lines) == [res |-> res, cl |-> cl, lines |-> lines]

\* MoveTo arm: finish() empties the buffer before is_valid() looks at it
MoveTo(data, cl, lines) ==
    LET f == finish(cl)
        p == f.ret
    IN  Result("Ok",
               add(f.cl, data.abs, CoordinatePair(data.x, data.y)),
               IF is_valid(f.cl) THEN Append(lines, p) ELSE lines)

LineTo(data, cl, lines) ==
    Result("Ok", add(cl, data.abs, CoordinatePair(data.x, data.y)), lines)

HorizontalLineTo_noabs(data, cl, lines) ==
    IF last_y(cl) = None THEN Result("Err", cl, lines)
    ELSE Result("Ok", add_relative(cl, CoordinatePair(data.x, 0)), lines)

HorizontalLineTo(data, cl, lines) ==
    IF last_y(cl) = None THEN Result("Err", cl, lines)
    ELSE IF data.abs
    THEN Result("Ok", add_absolute(cl, CoordinatePair(data.x, last_y(cl)[1])), lines)
    ELSE Result("Ok", add_relative(cl, CoordinatePair(data.x, 0)), lines)

VerticalLineTo(data, cl, lines) ==
    IF last_x(cl) = None THEN Result("Err", cl, lines)
    ELSE IF data.abs
    THEN Result("Ok", add_absolute(cl, CoordinatePair(last_x(cl)[1], data.y)), lines)
    ELSE Result("Ok", add_relative(cl, CoordinatePair(0, data.y)), lines)

CurveTo(data, cl, lines) ==
    IF last_pair(cl) = None THEN Result("Err", cl, lines)
    ELSE LET current == last_pair(cl)[1]
             ox == IF data.abs THEN 0 ELSE current.x
             oy == IF data.abs THEN 0 ELSE current.y
         IN  Result("Ok",
                    AddAll(cl, CubicFlattened(Point(current.x, current.y),
                               Point(ox + data.x1, oy + data.y1),
                               Point(ox + data.x2, oy + data.y2),
                               Point(ox + data.x, oy + data.y))),
                    lines)

Quadratic(data, cl, lines) ==
    IF last_pair(cl) = None THEN Result("Err", cl, lines)
    ELSE LET current == last_pair(cl)[1]
             ox == IF data.abs THEN 0 ELSE current.x
             oy == IF data.abs THEN 0 ELSE current.y
         IN  Result("Ok",
                    AddAll(cl, QuadraticFlattened(Point(current.x, current.y),
                               Point(ox + data.x1, oy + data.y1),
                               Point(ox + data.x, oy + data.y))),
                    lines)

ClosePath_finishing(data, cl, lines) ==
    LET c == close(cl)
    IN  Result(c.res, IF c.res = "Err" THEN finish(c.cl).cl ELSE c.cl, lines)

ClosePath(data, cl, lines) ==
    LET c == close(cl) IN Result(c.res, c.cl, lines)

parse_path_token(data, cl, lines) ==
    CASE data.kind = "MoveTo"           -> MoveTo(data, cl, lines)
      [] data.kind = "LineTo"           -> LineTo(data, cl, lines)
      [] data.kind = "HorizontalLineTo" -> HorizontalLineTo(data, cl, lines)
      [] data.kind = "VerticalLineTo"   -> VerticalLineTo(data, cl, lines)
      [] data.kind = "CurveTo"          -> CurveTo(data, cl, lines)
      [] data.kind = "Quadratic"        -> Quadratic(data, cl, lines)
      [] data.kind = "ClosePath"        -> ClosePath(data, cl, lines)
      [] OTHER                          -> Result("Err", cl, lines)

\* ---------------------------------------------------------------- simplify
\* geo's simplifyvw (Visvalingam-Whyatt): while the interior point with the
\* smallest triangle area has an area that is not above epsilon, remove it;
\* the two end points are never removed.  Cross is twice the area, in
\* quarters squared, where the epsilon 0.5 is 4 * FLATTENING_TOLERANCE.
RemoveAt(s, i) == [k \in 1 .. Len(s) - 1 |-> IF k < i THEN s[k] ELSE s[k + 1]]

TriangleArea2(s, i) == Abs(Cross(s[i - 1], s[i], s[i + 1]))

RECURSIVE simplifyvw(_)
simplifyvw(s) ==
    IF Len(s) < 3 THEN s
    ELSE LET inner    == 2 .. Len(s) - 1
             smallest == CHOOSE i \in inner :
                           \A j \in inner :
                              \/ TriangleArea2(s, i) < TriangleArea2(s, j)
                              \/ TriangleArea2(s, i) = TriangleArea2(s, j) /\ i <= j
         IN  IF TriangleArea2(s, smallest) > 8 * FLATTENING_TOLERANCE
             THEN s
             ELSE simplifyvw(RemoveAt(s, smallest))

SimplifyOne_upto3(cp) ==
    IF Len(cp) <= 1 THEN <<>>
    ELSE IF Len(cp) <= 3
    THEN IF /\ Abs(cp[2].x - cp[1].x) > FLATTENING_TOLERANCE
            /\ Abs(cp[2].y - cp[2].y) > FLATTENING_TOLERANCE
         THEN << << cp[1], cp[2] >> >>
         ELSE <<>>
    ELSE << simplifyvw(cp) >>

SimplifyOne_unsimplified(cp) ==
    IF Len(cp) <= 1 THEN <<>>
    ELSE IF Len(cp) <= 2
    THEN IF /\ Abs(cp[2].x - cp[1].x) > FLATTENING_TOLERANCE
            /\ Abs(cp[2].y - cp[2].y) > FLATTENING_TOLERANCE
         THEN << << cp[1], cp[2] >> >>
         ELSE <<>>
    ELSE << cp >>

\* what simplify pushes for one polyline: nothing or one polyline.  The
\* second test of the 2-point case subtracts cp[1].y from itself.
SimplifyOne(cp) ==
    IF Len(cp) <= 1 THEN <<>>
    ELSE IF Len(cp) <= 2
    THEN IF /\ Abs(cp[2].x - cp[1].x) > FLATTENING_TOLERANCE
            /\ Abs(cp[2].y - cp[2].y) > FLATTENING_TOLERANCE
         THEN << << cp[1], cp[2] >> >>
         ELSE <<>>
    ELSE << simplifyvw(cp) >>

RECURSIVE simplify(_)
simplify(polylines) ==
    IF polylines = <<>> THEN <<>>
    ELSE SimplifyOne(Head(polylines)) \o simplify(Tail(polylines))

\* ------------------------------------------------------------ path tokens
\* svgparser's path tokenizer delivers a coordinate pair that follows a
\* MoveTo without a command letter as a LineTo of the same abs flag.
TMoveTo(abs, x, y) == [kind |-> "MoveTo", abs |-> abs, x |-> x, y |-> y]
TLineTo(abs, x, y) == [kind |-> "LineTo", abs |-> abs, x |-> x, y |-> y]
THorizontalLineTo(abs, x) == [kind |-> "HorizontalLineTo", abs |-> abs, x |-> x]
TVerticalLineTo(abs, y) == [kind |-> "VerticalLineTo", abs |-> abs, y |-> y]
TCurveTo(abs, x1, y1, x2, y2, x, y) ==
    [kind |-> "CurveTo", abs |-> abs, x1 |-> x1, y1 |-> y1,
     x2 |-> x2, y2 |-> y2, x |-> x, y |-> y]
TQuadratic(abs, x1, y1, x, y) ==
    [kind |-> "Quadratic", abs |-> abs, x1 |-> x1, y1 |-> y1, x |-> x, y |-> y]
TClosePath(abs) == [kind |-> "ClosePath", abs |-> abs]
TSmoothQuadratic(abs, x, y) ==
    [kind |-> "SmoothQuadratic", abs |-> abs, x |-> x, y |-> y]
TSmoothCurveTo(abs, x2, y2, x, y) ==
    [kind |-> "SmoothCurveTo", abs |-> abs, x2 |-> x2, y2 |-> y2, x |-> x, y |-> y]
TEllipticalArc(abs, rx, ry, x, y) ==
    [kind |-> "EllipticalArc", abs |-> abs, rx |-> rx, ry |-> ry, x |-> x, y |-> y]

\* 8388608.25 in quarters: a coordinate that f64 holds and f32 does not
Unrepresentable == 33554433

\* operands of the tokens of an unconstrained path, in quarters
Points == { CoordinatePair(0, 0), CoordinatePair(1, 1), CoordinatePair(4, 4) }

Tokens ==
    { TMoveTo(a, p.x, p.y) : a \in BOOLEAN, p \in Points }
    \cup { TLineTo(a, p.x, p.y) : a \in BOOLEAN, p \in Points }
    \cup { THorizontalLineTo(a, 4) : a \in BOOLEAN }
    \cup { TVerticalLineTo(a, 4) : a \in BOOLEAN }
    \cup { TCurveTo(a, 0, 4, 4, 4, 4, 0) : a \in BOOLEAN }
    \cup { TCurveTo(TRUE, 0, 4, 4, 4, Unrepresentable, 0) }
    \cup { TQuadratic(a, 4, 4, 8, 0) : a \in BOOLEAN }
    \cup { TClosePath(TRUE), TSmoothQuadratic(TRUE, 4, 4),
           TSmoothCurveTo(TRUE, 0, 4, 4, 4), TEllipticalArc(FALSE, 4, 4, 4, 0) }

\* -------------------------------------------------------- scanner tokens
\* svgparser's svg::Tokenizer yields Ok(Token) or Err; after an Err the
\* iterator is finished.
AttributeD(value) == [t |-> "Attribute", id |-> "d", value |-> value]
AttributeOther    == [t |-> "Attribute", id |-> "version", value |-> <<>>]
ElementStart      == [t |-> "ElementStart", id |-> "path", value |-> <<>>]
ScanErr           == [t |-> "Error", id |-> "", value |-> <<>>]

\* the head of the test documents: <svg xmlns=.. version=..> <path d=..>
Document(d) == << ElementStart, AttributeOther, ElementStart, AttributeD(d) >>

\* the d values of the tests of the crate
D_nonclosed == << TMoveTo(TRUE, 4 * 113, 4 * 35), THorizontalLineTo(TRUE, 4 * 40),
                  TLineTo(TRUE, 4 * (-39), 4 * 49), THorizontalLineTo(TRUE, 4 * 40) >>

D_closed == << TMoveTo(TRUE, 40, 40), TLineTo(TRUE, 80, 60), TLineTo(TRUE, 40, 80),
               TClosePath(TRUE) >>

D_issue_5 == << TMoveTo(TRUE, 40, 40), TLineTo(TRUE, 80, 60), TLineTo(TRUE, 40, 80),
                TClosePath(TRUE), TMoveTo(FALSE, 0, 160), THorizontalLineTo(TRUE, 0) >>

D_multiple == << TMoveTo(TRUE, 4, 8), TLineTo(TRUE, 8, 12),
                 TMoveTo(TRUE, 4, 12), TLineTo(TRUE, 8, 16),
                 TMoveTo(TRUE, 4, 16), TLineTo(TRUE, 8, 20),
                 TMoveTo(TRUE, 4, 20) >>

TestDocuments ==
    { Document(D_nonclosed), Document(D_closed), Document(D_issue_5),
      Document(D_multiple) }

\* documents with two path elements, each with one of these d values and
\* another attribute after the first
D_triangle == << TMoveTo(TRUE, 0, 0), TLineTo(TRUE, 40, 0), TLineTo(TRUE, 0, 40) >>

D_step == << TMoveTo(TRUE, 0, 0), THorizontalLineTo(FALSE, 40), TVerticalLineTo(FALSE, 40) >>

D_single == << TMoveTo(TRUE, 8, 8) >>

TwoPathDocuments ==
    { << ElementStart, AttributeD(a), AttributeOther, ElementStart, AttributeD(b) >> :
        a, b \in { D_triangle, D_step, D_single } }

\* the input still to be scanned: free is TRUE for an unconstrained input,
\* which may deliver any token next or end; otherwise toks is what is left
Unconstrained == [free |-> TRUE, toks |-> <<>>]
Given(toks)   == [free |-> FALSE, toks |-> toks]
AtEnd(in)     == in.free \/ in.toks = <<>>

\* ------------------------------------------------------------------ state
VARIABLES
    pc,            \* where parse is: "scan", "path", "done", "panicked"; a
                   \* failed save leaves it at "save_panicked"
    svg,           \* the document still to be scanned
    path,          \* the path data still to be tokenized (in parse_path)
    current_line,  \* parse_path: the CurrentLine `line`
    lines,         \* parse_path: the Vec `lines`
    polylines,     \* parse: the polylines collected from the path elements
    result,        \* parse: None until it returns, then Some(returned Vec)
    files,         \* names of the files written so far
    op,            \* the operation that acted last
    tokens,        \* the path tokens the current parse_path call has consumed
    ret,           \* what the last parse_path_token call returned
    pre,           \* current_line and lines as the last call found them
    path_ret,      \* what the last parse_path call returned
    scan_failed,   \* the scanner has yielded an Err
    npaths,        \* number of parse_path calls
    ntok,          \* number of path tokens consumed
    ndoc,          \* number of scanner tokens consumed
    scanned,       \* the scanner tokens consumed so far (kind and name)
    path_rets,     \* what the parse_path calls returned, in call order
    drawing,       \* to_dxf: None until it returns, then Some(entities)
    document,      \* to_svg: None until it returns, then Some(paths)
    heap,          \* buffers handed over the C boundary: times each was freed
    out,           \* svg_str_to_polylines: what *polylines and *polylines_len hold
    ffi_ret,       \* svg_str_to_polylines: None until it returns, then Some(u8)
    writable,      \* None until a file is saved, then Some(the directory took it)
    file_arg,      \* write_dxf: None until it is called, then Some(path)
    appended,      \* CurrentLine: the points pushed since the last finish
    due,           \* CurrentLine: None, then Some(`appended` as the last finish found it)
    finished,      \* CurrentLine: None, then Some(what the last finish returned)
    is_valid_ret   \* CurrentLine: None, then Some(what the last is_valid returned)

vars == << pc, svg, path, current_line, lines, polylines, result, files, op,
           tokens, ret, pre, path_ret, scan_failed, npaths, ntok, ndoc,
           scanned, path_rets, drawing, document, heap, out, ffi_ret,
           writable, file_arg, appended, due, finished,
           is_valid_ret >>

\* what the document driver leaves alone
api_vars == << drawing, document >>
ffi_vars == << heap, out, ffi_ret >>
line_vars == << appended, due, finished, is_valid_ret >>

\* *polylines and *polylines_len before anything is written to them
Unwritten == [polylines |-> None, polylines_len |-> None]

\* no buffer has been handed out
EmptyHeap == << >>

Init ==
    /\ pc = "scan"
    /\ svg \in { Unconstrained }
               \cup { Given(d) : d \in TestDocuments \cup TwoPathDocuments }
    /\ path = Given(<<>>)
    /\ current_line = CurrentLineNew
    /\ lines = <<>>
    /\ polylines = <<>>
    /\ result = None
    /\ files = {}
    /\ op = "init"
    /\ tokens = <<>>
    /\ ret = "None"
    /\ pre = [current_line |-> CurrentLineNew, lines |-> <<>>]
    /\ path_ret = <<>>
    /\ scan_failed = FALSE
    /\ npaths = 0
    /\ ntok = 0
    /\ ndoc = 0
    /\ scanned = <<>>
    /\ path_rets = <<>>
    /\ drawing = None
    /\ document = None
    /\ heap = EmptyHeap
    /\ out = Unwritten
    /\ ffi_ret = None
    /\ writable = None
    /\ file_arg = None
    /\ appended = <<>>
    /\ due = None
    /\ finished = None
    /\ is_valid_ret = None

\* the scanner tokens that may come next, and the input after one of them
NextScan ==
    IF svg.free
    THEN IF ndoc < MaxDocTokens
         THEN { AttributeD(<<>>), AttributeOther, ElementStart, ScanErr }
         ELSE {}
    ELSE IF svg.toks = <<>> THEN {} ELSE { Head(svg.toks) }

Consumed(in) == IF in.free THEN in ELSE Given(Tail(in.toks))

\* what is recorded of a scanner token: its kind and its name
Scanned(t) == [t |-> t.t, id |-> t.id]

\* flat_map(|v| v.into_iter()).collect(): the polylines of a path element
\* follow the ones collected before
Collect_front(collected, returned) == returned \o collected

Collect(collected, returned) == collected \o returned

NextPathTokens ==
    IF path.free
    THEN IF ntok < MaxTokens THEN Tokens ELSE {}
    ELSE IF path.toks = <<>> THEN {} ELSE { Head(path.toks) }

\* ---------------------------------------------------------------- actions
\* parse, closure of filter_map: Ok(Token::Attribute(D, ..)) starts
\* parse_path, which creates `lines` and the CurrentLine
ScanAttributeD ==
    /\ pc = "scan"
    /\ \E t \in NextScan :
          /\ t.t = "Attribute" /\ t.id = "d"
          /\ path' = IF svg.free THEN Unconstrained ELSE Given(t.value)
          /\ scanned' = Append(scanned, Scanned(t))
    /\ svg' = Consumed(svg)
    /\ ndoc' = ndoc + 1
    /\ npaths' = npaths + 1
    /\ pc' = "path"
    /\ lines' = <<>>
    /\ current_line' = CurrentLineNew
    /\ tokens' = <<>>
    /\ ret' = "None"
    /\ pre' = [current_line |-> CurrentLineNew, lines |-> <<>>]
    /\ op' = "attribute_d"
    /\ UNCHANGED << api_vars, ffi_vars, line_vars, file_arg, writable >>
    /\ UNCHANGED << polylines, result, files, path_ret, scan_failed, ntok,
                    path_rets >>

\* parse, closure of filter_map: another attribute, or a token that is not
\* an attribute, yields None
ScanOther ==
    /\ pc = "scan"
    /\ \E t \in NextScan :
          /\ \/ t.t = "Attribute" /\ t.id # "d"
             \/ t.t \notin { "Attribute", "Error" }
          /\ scanned' = Append(scanned, Scanned(t))
    /\ svg' = Consumed(svg)
    /\ ndoc' = ndoc + 1
    /\ op' = "other"
    /\ UNCHANGED << api_vars, ffi_vars, line_vars, file_arg, writable >>
    /\ UNCHANGED << pc, path, current_line, lines, polylines, result, files,
                    tokens, ret, pre, path_ret, scan_failed, npaths, ntok,
                    path_rets >>

\* parse, closure of filter_map: an Err of the scanner falls into `_ => None`;
\* the tokenizer is finished after it
ScanError ==
    /\ pc = "scan"
    /\ \E t \in NextScan :
          /\ t.t = "Error"
          /\ scanned' = Append(scanned, Scanned(t))
    /\ svg' = Given(<<>>)
    /\ scan_failed' = TRUE
    /\ ndoc' = ndoc + 1
    /\ op' = "scan_error"
    /\ UNCHANGED << api_vars, ffi_vars, line_vars, file_arg, writable >>
    /\ UNCHANGED << pc, path, current_line, lines, polylines, result, files,
                    tokens, ret, pre, path_ret, npaths, ntok, path_rets >>

\* parse_path, body of the for loop: parse_path_token(..).unwrap()
PathToken ==
    /\ pc = "path"
    /\ \E token \in NextPathTokens :
          LET r == parse_path_token(token, current_line, lines)
          IN  /\ tokens' = Append(tokens, token)
              /\ ret' = r.res
              /\ current_line' = r.cl
              /\ lines' = r.lines
              /\ pc' = IF r.res = "Err" THEN "panicked" ELSE "path"
    /\ pre' = [current_line |-> current_line, lines |-> lines]
    /\ path' = Consumed(path)
    /\ ntok' = ntok + 1
    /\ op' = "token"
    /\ UNCHANGED << api_vars, ffi_vars, line_vars, file_arg, writable >>
    /\ UNCHANGED << svg, polylines, result, files, path_ret, scan_failed,
                    npaths, ndoc, scanned, path_rets >>

\* parse_path after the loop, and flat_map/collect taking what it returns
PathEnd ==
    /\ pc = "path"
    /\ AtEnd(path)
    /\ LET f        == finish(current_line)
           returned == IF is_valid(current_line) THEN Append(lines, f.ret)
                       ELSE lines
       IN  /\ current_line' = IF is_valid(current_line) THEN f.cl ELSE current_line
           /\ lines' = returned
           /\ path_ret' = returned
           /\ path_rets' = Append(path_rets, returned)
           /\ polylines' = Collect(polylines, returned)
    /\ pre' = [current_line |-> current_line, lines |-> lines]
    /\ pc' = "scan"
    /\ path' = Given(<<>>)
    /\ op' = "path_end"
    /\ UNCHANGED << api_vars, ffi_vars, line_vars, file_arg, writable >>
    /\ UNCHANGED << svg, result, files, tokens, ret, scan_failed, npaths,
                    ntok, ndoc, scanned >>

\* a file path: its stem and its extension
File(stem, ext) == [stem |-> stem, ext |-> ext]

\* to_dxf builds the drawing and saves it as ./file.dxf
to_dxf(fs, pls) == fs \cup { File("./file", "dxf") }

write_svg(fs, pls, p) == IF p.ext = "svg" THEN fs \cup { p } ELSE fs

write_dxf(fs, pls, p) == IF p.ext = "dxf" THEN to_dxf(fs, pls) ELSE fs

test_dxf_r12(fs) == fs \cup { File("./file-r12", "dxf") }

test_dxf_r2014(fs) == fs \cup { File("./file-r2004", "dxf") }

\* parse after collect: the two test drawings, then the "simplify" strategy.
\* Every save is unwrapped: in a directory that takes no file the first one,
\* in test_dxf_r12, panics.
ParseFinish ==
    /\ pc = "scan"
    /\ NextScan = {}
    /\ AtEnd(svg)
    /\ \E w \in BOOLEAN :
          /\ writable' = Some(w)
          /\ LET simplifyvec == simplify(polylines)
                 f1 == test_dxf_r2014(test_dxf_r12(files))
                 f2 == write_svg(f1, simplifyvec, File("./tmp", "svg"))
                 f3 == write_dxf(f2, simplifyvec, File("./tmp", "dxf"))
                 f4 == write_svg(f3, polylines, File("./tmp-no", "svg"))
             IN  IF w
                 THEN /\ files' = f4
                      /\ result' = Some(simplifyvec)
                      /\ pc' = "done"
                 ELSE /\ files' = files
                      /\ result' = result
                      /\ pc' = "save_panicked"
    /\ op' = "finish"
    /\ UNCHANGED << api_vars, ffi_vars, line_vars, file_arg >>
    /\ UNCHANGED << svg, path, current_line, lines, polylines, tokens, ret,
                    pre, path_ret, scan_failed, npaths, ntok, ndoc, scanned,
                    path_rets >>

\* ------------------------------------------------------- the C interface
\* src/svg2polylines-ffi/src/lib.rs.  A pointer is the index of a buffer in
\* `heap`; a buffer records what it holds, its capacity and how many times
\* it has been freed.

\* v.shrink_to_fit(); mem::forget(v): the buffer of v stays allocated
Forgotten(v) == [data |-> v, cap |-> Len(v), freed |-> 0]

\* struct Polyline
Polyline(ptr, len) == [ptr |-> ptr, len |-> len]

\* the closure of map: each inner Vec is forgotten and described by a
\* Polyline; the inner buffers take the first places of the heap
InnerBuffers(vec) == [i \in 1..Len(vec) |-> Forgotten(vec[i])]

TmpVec(vec) == [i \in 1..Len(vec) |-> Polyline(i, Len(vec[i]))]

\* svg_str_to_polylines after parse has returned `vec`
svg_str_to_polylines_writing(vec, o) ==
    LET tmp_vec == TmpVec(vec)
    IN  [heap |-> Append(InnerBuffers(vec), Forgotten(tmp_vec)),
         out  |-> [polylines     |-> Some(Len(vec) + 1),
                   polylines_len |-> Some(Len(tmp_vec))],
         ret  |-> IF Len(tmp_vec) > 0 THEN 0 ELSE 1]

svg_str_to_polylines(vec, o) ==
    LET tmp_vec == TmpVec(vec)
    IN  IF Len(tmp_vec) > 0
        THEN [heap |-> Append(InnerBuffers(vec), Forgotten(tmp_vec)),
              out  |-> [polylines     |-> Some(Len(vec) + 1),
                        polylines_len |-> Some(Len(tmp_vec))],
              ret  |-> 0]
        ELSE [heap |-> InnerBuffers(vec), out |-> o, ret |-> 1]

\* Vec::from_raw_parts(ptr, len, len) going out of scope frees the buffer
\* at ptr; how often free_polylines does that to buffer i
free_polylines_outer_only(h, ptr, len) ==
    [i \in DOMAIN h |->
        [h[i] EXCEPT !.freed = @ + (IF i = ptr THEN 1 ELSE 0)]]

free_polylines(h, ptr, len) ==
    LET outer == SubSeq(h[ptr].data, 1, len)
        inner(i) == Cardinality({ j \in DOMAIN outer : outer[j].ptr = i })
    IN  [i \in DOMAIN h |->
            [h[i] EXCEPT !.freed = @ + inner(i)
                                     + (IF i = ptr THEN 1 ELSE 0)]]

\* svg_str_to_polylines, from the return of parse to its own return
SvgStrToPolylines ==
    /\ pc = "done"
    /\ LET r == svg_str_to_polylines(result[1], out)
       IN  /\ heap' = r.heap
           /\ out' = r.out
           /\ ffi_ret' = Some(r.ret)
    /\ pc' = "ffi_returned"
    /\ op' = "svg_str_to_polylines"
    /\ UNCHANGED << svg, path, current_line, lines, polylines, result, files,
                    tokens, ret, pre, path_ret, scan_failed, npaths, ntok,
                    ndoc, scanned, path_rets, api_vars, line_vars,
                    file_arg, writable >>

\* the caller hands the returned pointer and length to free_polylines, once
FreePolylines ==
    /\ pc = "ffi_returned"
    /\ ffi_ret = Some(0)
    /\ heap' = free_polylines(heap, out.polylines[1], out.polylines_len[1])
    /\ pc' = "freed"
    /\ op' = "free_polylines"
    /\ UNCHANGED << svg, path, current_line, lines, polylines, result, files,
                    tokens, ret, pre, path_ret, scan_failed, npaths, ntok,
                    ndoc, scanned, path_rets, api_vars, out, ffi_ret,
                    line_vars, file_arg, writable >>

Next ==
    \/ ScanAttributeD
    \/ ScanOther
    \/ ScanError
    \/ PathToken
    \/ PathEnd
    \/ ParseFinish
    \/ SvgStrToPolylines
    \/ FreePolylines

Spec == Init /\ [][Next]_vars

\* ------------------------------------------------------ export functions
\* dxf::Point::new
DxfPoint(x, y, z) == [x |-> x, y |-> y, z |-> z]

to_dxf_entity_unflipped(cp) ==
    IF Len(cp) <= 1 THEN <<>>
    ELSE IF Len(cp) = 2
    THEN << [type |-> "Line",
             p1 |-> DxfPoint(cp[1].x, cp[1].y, 0),
             p2 |-> DxfPoint(cp[2].x, cp[2].y, 0)] >>
    ELSE << [type |-> "Polyline",
             vertices |-> [n \in 1 .. Len(cp) |-> DxfPoint(cp[n].x, cp[n].y, 0)]] >>

\* to_dxf, body of the loop: the entities pushed for one polyline
to_dxf_entity(cp) ==
    IF Len(cp) <= 1 THEN <<>>
    ELSE IF Len(cp) = 2
    THEN << [type |-> "Line",
             p1 |-> DxfPoint(cp[1].x, -cp[1].y, 0),
             p2 |-> DxfPoint(cp[2].x, -cp[2].y, 0)] >>
    ELSE << [type |-> "Polyline",
             vertices |-> [n \in 1 .. Len(cp) |-> DxfPoint(cp[n].x, -cp[n].y, 0)]] >>

\* to_dxf: drawing.entities of the Drawing it returns
RECURSIVE to_dxf_entities(_)
to_dxf_entities(pls) ==
    IF pls = <<>> THEN <<>>
    ELSE to_dxf_entity(Head(pls)) \o to_dxf_entities(Tail(pls))

to_svg_path_closed(cp) ==
    IF Len(cp) <= 1 THEN <<>>
    ELSE << [n \in 1 .. Len(cp) + 1 |->
               IF n = 1 THEN [cmd |-> "move_to", x |-> cp[1].x, y |-> cp[1].y]
               ELSE IF n = Len(cp) + 1
               THEN [cmd |-> "line_to", x |-> cp[1].x, y |-> cp[1].y]
               ELSE [cmd |-> "line_to", x |-> cp[n].x, y |-> cp[n].y]] >>

\* to_svg, body of the loop: the path data appended for one polyline
to_svg_path(cp) ==
    IF Len(cp) <= 1 THEN <<>>
    ELSE << [n \in 1 .. Len(cp) |->
               IF n = 1 THEN [cmd |-> "move_to", x |-> cp[1].x, y |-> cp[1].y]
               ELSE [cmd |-> "line_to", x |-> cp[n].x, y |-> cp[n].y]] >>

\* to_svg: the d values of the paths of the group, in order
RECURSIVE to_svg_paths(_)
to_svg_paths(pls) ==
    IF pls = <<>> THEN <<>>
    ELSE to_svg_path(Head(pls)) \o to_svg_paths(Tail(pls))

\* ------------------------------------------ the public functions, called
\* directly with a list of polylines
\* longest first polyline of an argument list
MaxLen == 3
\* number of further polylines of an argument list
MaxRest == 1

ApiPoints == { CoordinatePair(0, 0), CoordinatePair(4, 4), CoordinatePair(8, 0),
               CoordinatePair(1, 0) }

SeqsUpTo(S, n) == UNION { [1 .. k -> S] : k \in 0 .. n }

RestPolylines ==
    { << CoordinatePair(0, 0) >>,
      << CoordinatePair(0, 0), CoordinatePair(4, 4) >>,
      << CoordinatePair(0, 0), CoordinatePair(8, 0), CoordinatePair(4, 4) >> }

ApiInputs ==
    { <<>> } \cup { << cp >> \o rest : cp \in SeqsUpTo(ApiPoints, MaxLen),
                                       rest \in SeqsUpTo(RestPolylines, MaxRest) }

InitApi ==
    /\ pc = "api"
    /\ polylines \in ApiInputs
    /\ svg = Given(<<>>)
    /\ path = Given(<<>>)
    /\ current_line = CurrentLineNew
    /\ lines = <<>>
    /\ result = None
    /\ files = {}
    /\ op = "init"
    /\ tokens = <<>>
    /\ ret = "None"
    /\ pre = [current_line |-> CurrentLineNew, lines |-> <<>>]
    /\ path_ret = <<>>
    /\ scan_failed = FALSE
    /\ npaths = 0
    /\ ntok = 0
    /\ ndoc = 0
    /\ scanned = <<>>
    /\ path_rets = <<>>
    /\ drawing = None
    /\ document = None
    /\ heap = EmptyHeap
    /\ out = Unwritten
    /\ ffi_ret = None
    /\ writable = Some(TRUE)
    /\ file_arg = None
    /\ appended = <<>>
    /\ due = None
    /\ finished = None
    /\ is_valid_ret = None

\* what a direct call leaves alone
parse_vars == << svg, path, current_line, lines, polylines, tokens, ret, pre,
                path_ret, scan_failed, npaths, ntok, ndoc, scanned, path_rets >>

CallSimplify ==
    /\ pc = "api"
    /\ result' = Some(simplify(polylines))
    /\ pc' = "returned"
    /\ op' = "simplify"
    /\ UNCHANGED << parse_vars, files, api_vars, ffi_vars, line_vars,
                    file_arg, writable >>

CallToDxf ==
    /\ pc = "api"
    /\ drawing' = Some(to_dxf_entities(polylines))
    /\ files' = to_dxf(files, polylines)
    /\ pc' = "returned"
    /\ op' = "to_dxf"
    /\ UNCHANGED << parse_vars, result, document, ffi_vars, line_vars,
                    file_arg, writable >>

CallToSvg ==
    /\ pc = "api"
    /\ document' = Some(to_svg_paths(polylines))
    /\ pc' = "returned"
    /\ op' = "to_svg"
    /\ UNCHANGED << parse_vars, result, files, drawing, ffi_vars,
                    line_vars, file_arg, writable >>

\* the paths write_dxf is called with: the one of examples/svgproc.rs, the
\* one to_dxf saves to, and one of another extension
ApiPaths ==
    { File("/tmp/svgproc/a", "dxf"), File("./file", "dxf"), File("./tmp", "svg") }

CallWriteDxf ==
    /\ pc = "api"
    /\ \E p \in ApiPaths :
          /\ file_arg' = Some(p)
          /\ files' = write_dxf(files, polylines, p)
    /\ pc' = "returned"
    /\ op' = "write_dxf"
    /\ UNCHANGED << parse_vars, result, api_vars, ffi_vars, line_vars,
                    writable >>

NextApi ==
    \/ CallSimplify
    \/ CallToDxf
    \/ CallToSvg
    \/ CallWriteDxf

SpecApi == InitApi /\ [][NextApi]_vars

\* ------------------------------------------------ CurrentLine on its own
\* The methods of CurrentLine called in any order on one object, as
\* test_current_line and test_current_line_close do.
MaxPoints == 3

InitLine ==
    /\ pc = "line"
    /\ current_line = CurrentLineNew
    /\ svg = Given(<<>>)
    /\ path = Given(<<>>)
    /\ lines = <<>>
    /\ polylines = <<>>
    /\ result = None
    /\ files = {}
    /\ op = "new"
    /\ tokens = <<>>
    /\ ret = "None"
    /\ pre = [current_line |-> CurrentLineNew, lines |-> <<>>]
    /\ path_ret = <<>>
    /\ scan_failed = FALSE
    /\ npaths = 0
    /\ ntok = 0
    /\ ndoc = 0
    /\ scanned = <<>>
    /\ path_rets = <<>>
    /\ drawing = None
    /\ document = None
    /\ heap = EmptyHeap
    /\ out = Unwritten
    /\ ffi_ret = None
    /\ writable = None
    /\ file_arg = None
    /\ appended = <<>>
    /\ due = None
    /\ finished = None
    /\ is_valid_ret = None

\* what a method of CurrentLine leaves alone
other_vars == << svg, path, lines, polylines, result, files, tokens, path_ret,
                scan_failed, npaths, ntok, ndoc, scanned, path_rets, api_vars,
                ffi_vars, writable, file_arg >>

\* the points a call pushed: what the buffer holds beyond what it held
Pushed(old, new) == SubSeq(new.line, Len(old.line) + 1, Len(new.line))

CallAddAbsolute ==
    /\ pc = "line"
    /\ Len(current_line.line) < MaxPoints
    /\ \E pair \in Points :
          /\ current_line' = add_absolute(current_line, pair)
          /\ appended' = Append(appended, pair)
    /\ op' = "add_absolute"
    /\ UNCHANGED << pc, other_vars, pre, ret, due, finished, is_valid_ret >>

CallClose ==
    /\ pc = "line"
    /\ Len(current_line.line) < MaxPoints
    /\ LET c == close(current_line)
       IN  /\ current_line' = c.cl
           /\ ret' = c.res
           /\ appended' = appended \o Pushed(current_line, c.cl)
    /\ op' = "close"
    /\ UNCHANGED << pc, other_vars, pre, due, finished, is_valid_ret >>

CallIsValid ==
    /\ pc = "line"
    /\ is_valid_ret' = Some(is_valid(current_line))
    /\ op' = "is_valid"
    /\ UNCHANGED << pc, other_vars, pre, ret, current_line, appended, due,
                    finished >>

CallFinish ==
    /\ pc = "line"
    /\ LET f == finish(current_line)
       IN  /\ current_line' = f.cl
           /\ finished' = Some(f.ret)
    /\ due' = Some(appended)
    /\ appended' = <<>>
    /\ op' = "finish"
    /\ UNCHANGED << pc, other_vars, pre, ret, is_valid_ret >>

NextLine ==
    \/ CallAddAbsolute
    \/ CallClose
    \/ CallIsValid
    \/ CallFinish

SpecLine == InitLine /\ [][NextLine]_vars

\* ------------------------------------------------------- the root crate
\* src/src/lib.rs, the earlier version of the library.  Its CurrentLine has
\* the field `line` alone; is_valid, last_x, last_y and finish read as they
\* do in svg2polylines.  SegmentData carries no absolute flag.
root_CurrentLineNew == [line |-> <<>>]

root_add(cl, pair) == [cl EXCEPT !.line = Append(@, pair)]

root_parse_segment_data(data, cl, ls) ==
    CASE data.kind = "MoveTo" ->
           LET f == finish(cl)
           IN  IF is_valid(cl)
               THEN Result("Ok", root_add(f.cl, CoordinatePair(data.x, data.y)),
                           Append(ls, f.ret))
               ELSE Result("Ok", root_add(cl, CoordinatePair(data.x, data.y)), ls)
      [] data.kind = "LineTo" ->
           Result("Ok", root_add(cl, CoordinatePair(data.x, data.y)), ls)
      [] data.kind = "HorizontalLineTo" ->
           IF last_y(cl) = None THEN Result("Err", cl, ls)
           ELSE Result("Ok", root_add(cl, CoordinatePair(data.x, last_y(cl)[1])), ls)
      [] data.kind = "VerticalLineTo" ->
           IF last_x(cl) = None THEN Result("Err", cl, ls)
           ELSE Result("Ok", root_add(cl, CoordinatePair(last_x(cl)[1], data.y)), ls)
      [] OTHER -> Result("Err", cl, ls)

\* the segments path::Tokenizer may yield next
SegmentData ==
    { TMoveTo(TRUE, p.x, p.y) : p \in Points }
    \cup { TLineTo(TRUE, p.x, p.y) : p \in Points }
    \cup { THorizontalLineTo(TRUE, 4), TVerticalLineTo(TRUE, 4),
           TCurveTo(TRUE, 0, 4, 4, 4, 4, 0) }

InitRoot ==
    /\ pc = "root_path"
    /\ current_line = root_CurrentLineNew
    /\ svg = Given(<<>>)
    /\ path = Unconstrained
    /\ lines = <<>>
    /\ polylines = <<>>
    /\ result = None
    /\ files = {}
    /\ op = "init"
    /\ tokens = <<>>
    /\ ret = "None"
    /\ pre = [current_line |-> root_CurrentLineNew, lines |-> <<>>]
    /\ path_ret = <<>>
    /\ scan_failed = FALSE
    /\ npaths = 1
    /\ ntok = 0
    /\ ndoc = 0
    /\ scanned = <<>>
    /\ path_rets = <<>>
    /\ drawing = None
    /\ document = None
    /\ heap = EmptyHeap
    /\ out = Unwritten
    /\ ffi_ret = None
    /\ writable = None
    /\ file_arg = None
    /\ appended = <<>>
    /\ due = None
    /\ finished = None
    /\ is_valid_ret = None

\* what the root crate's parse_path leaves alone
root_other == << svg, polylines, result, files, scan_failed, npaths, ndoc,
                scanned, path_rets, api_vars, ffi_vars, line_vars, writable,
                file_arg >>

\* parse_path, Ok(Segment(segment)): parse_segment_data(..).unwrap()
RootSegment ==
    /\ pc = "root_path"
    /\ ntok < MaxTokens
    /\ \E data \in SegmentData :
          LET r == root_parse_segment_data(data, current_line, lines)
          IN  /\ tokens' = Append(tokens, data)
              /\ ret' = r.res
              /\ current_line' = r.cl
              /\ lines' = r.lines
              /\ pc' = IF r.res = "Err" THEN "panicked" ELSE "root_path"
    /\ pre' = [current_line |-> current_line, lines |-> lines]
    /\ ntok' = ntok + 1
    /\ op' = "segment"
    /\ UNCHANGED << root_other, path, path_ret >>

\* parse_path, Ok(EndOfStream): break, and `lines` is returned
RootEndOfStream ==
    /\ pc = "root_path"
    /\ path_ret' = lines
    /\ pre' = [current_line |-> current_line, lines |-> lines]
    /\ path' = Given(<<>>)
    /\ pc' = "root_returned"
    /\ op' = "end_of_stream"
    /\ UNCHANGED << root_other, current_line, lines, tokens, ret, ntok >>

\* parse_path, Err(e): warn!, break, and `lines` is returned
RootInvalidSegment ==
    /\ pc = "root_path"
    /\ path_ret' = lines
    /\ pre' = [current_line |-> current_line, lines |-> lines]
    /\ path' = Given(<<>>)
    /\ pc' = "root_returned"
    /\ op' = "invalid_segment"
    /\ UNCHANGED << root_other, current_line, lines, tokens, ret, ntok >>

NextRoot ==
    \/ RootSegment
    \/ RootEndOfStream
    \/ RootInvalidSegment

SpecRoot == InitRoot /\ [][NextRoot]_vars

\* ================================================================= claims

\* C1: a MoveTo processed while the in-progress buffer holds at least 2
\* points appends that buffer to `lines` as one polyline and leaves the
\* buffer with exactly 1 point; after the seven tokens of
\* test_parse_segment_data_multiple (three 2-point subpaths and one more
\* MoveTo) `lines` holds 3 polylines and the buffer 1 point.
C1_MoveToCommitsValidBuffer ==
    /\ (op = "token" /\ tokens[Len(tokens)].kind = "MoveTo"
          /\ Len(pre.current_line.line) >= 2)
       => /\ lines = Append(pre.lines, pre.current_line.line)
          /\ Len(current_line.line) = 1
    /\ (op = "token" /\ tokens = D_multiple)
       => /\ Len(lines) = 3
          /\ Len(current_line.line) = 1

\* C2: a document with one path element whose d value is an absolute MoveTo
\* followed only by N-1 further coordinate pairs (N >= 2) makes parse return
\* exactly one polyline: the N input pairs in input order.
C2_MoveToOnlyPathIsReturnedVerbatim ==
    (/\ pc = "done"
     /\ npaths = 1
     /\ Len(tokens) >= 2
     /\ tokens[1].kind = "MoveTo" /\ tokens[1].abs
     /\ \A i \in 2 .. Len(tokens) : tokens[i].kind = "LineTo" /\ tokens[i].abs)
    => result = Some(<< [i \in 1 .. Len(tokens) |->
                           CoordinatePair(tokens[i].x, tokens[i].y)] >>)

\* C3: for `M 10,10 20,15 10,20 Z m 0,40 H 0` parse returns the closed
\* subpath [(10,10),(20,15),(10,20),(10,10)] and then [(10,50),(0,50)], the
\* relative MoveTo being resolved against the first point of the closed one.
C3_RelativeMoveToAfterClose ==
    (pc = "done" /\ npaths = 1 /\ tokens = D_issue_5)
    => result = Some(<< << P(10, 10), P(20, 15), P(10, 20), P(10, 10) >>,
                        << P(10, 50), P(0, 50) >> >>)

\* C4: when parse_path_token returns Err for a token of a path element,
\* parse goes on: the path element is left with its committed polylines
\* kept, and the scan of the document continues.
C4_TokenErrorIsRecovered ==
    (op = "token" /\ ret = "Err")
    => /\ pc = "scan"
       /\ path_ret = pre.lines

\* C5: once the scanner has reported an error, parse never returns a list
\* of polylines as if it had succeeded.
C5_ScannerErrorIsSurfaced ==
    scan_failed => ~ (pc = "done" /\ result # None)

\* C6: at the end of the command stream parse_path returns `lines` with the
\* in-progress buffer appended as last polyline if and only if the buffer
\* holds at least 2 points; a buffer of 0 or 1 points is dropped.
C6_EndOfStreamCommit ==
    op = "path_end"
    => path_ret = IF Len(pre.current_line.line) >= 2
                  THEN Append(pre.lines, pre.current_line.line)
                  ELSE pre.lines

C6_Witness ==
    /\ op = "path_end"
    /\ Len(pre.current_line.line) >= 2
    /\ path_ret = << pre.current_line.line >>

\* C7: ClosePath on a buffer of length L >= 2 succeeds, keeps the first L
\* points, appends a copy of the first point (length L + 1, first point
\* equal to last point) and records the first point as prev_end.
C7_ClosePath ==
    (op = "token" /\ tokens[Len(tokens)].kind = "ClosePath"
       /\ Len(pre.current_line.line) >= 2)
    => LET old == pre.current_line.line
           new == current_line.line
       IN  /\ ret = "Ok"
           /\ Len(new) = Len(old) + 1
           /\ SubSeq(new, 1, Len(old)) = old
           /\ new[Len(new)] = old[1]
           /\ new[1] = new[Len(new)]
           /\ current_line.prev_end = Some(old[1])

C7_Witness ==
    /\ op = "token" /\ tokens[Len(tokens)].kind = "ClosePath"
    /\ Len(pre.current_line.line) >= 2
    /\ pre.current_line.line[1] # pre.current_line.line[2]
    /\ Len(current_line.line) = Len(pre.current_line.line) + 1

\* C8: with a non-empty buffer whose last point is (px, py), absolute
\* HorizontalLineTo(x) appends (x, py), relative appends (px + x, py),
\* absolute VerticalLineTo(y) appends (px, y), relative appends (px, py + y);
\* the earlier points and the output list are unchanged.  For
\* `M 113,35 H 40 L -39,49 H 40` parse returns the single polyline
\* [(113,35), (40,35), (-39,49), (40,49)].
C8_HorizontalVertical ==
    /\ (op = "token" /\ pre.current_line.line # <<>>
          /\ tokens[Len(tokens)].kind \in { "HorizontalLineTo", "VerticalLineTo" })
       => LET data == tokens[Len(tokens)]
              old  == pre.current_line.line
              p    == old[Len(old)]
              new  == IF data.kind = "HorizontalLineTo"
                      THEN CoordinatePair(IF data.abs THEN data.x ELSE p.x + data.x, p.y)
                      ELSE CoordinatePair(p.x, IF data.abs THEN data.y ELSE p.y + data.y)
          IN  /\ ret = "Ok"
              /\ current_line.line = Append(old, new)
              /\ lines = pre.lines
    /\ (pc = "done" /\ npaths = 1 /\ tokens = D_nonclosed)
       => result = Some(<< << P(113, 35), P(40, 35), P(-39, 49), P(40, 49) >> >>)

C8_Witness ==
    /\ op = "token"
    /\ tokens[Len(tokens)].kind = "HorizontalLineTo"
    /\ tokens[Len(tokens)].abs
    /\ pre.current_line.line # <<>>
    /\ pre.current_line.line[Len(pre.current_line.line)].x # 0
    /\ Len(current_line.line) = Len(pre.current_line.line) + 1

\* C9: parse_path_token returns Err exactly for HorizontalLineTo,
\* VerticalLineTo, CurveTo or Quadratic on an empty buffer, for ClosePath on
\* a buffer of fewer than 2 points, and for every token kind other than
\* MoveTo, LineTo, HorizontalLineTo, VerticalLineTo, CurveTo, Quadratic and
\* ClosePath; it returns Ok in every other case.
C9_ErrCases ==
    op = "token"
    => LET data == tokens[Len(tokens)]
           old  == pre.current_line.line
       IN  ret = IF \/ /\ data.kind \in { "HorizontalLineTo", "VerticalLineTo",
                                          "CurveTo", "Quadratic" }
                       /\ Len(old) = 0
                    \/ data.kind = "ClosePath" /\ Len(old) < 2
                    \/ data.kind \notin { "MoveTo", "LineTo", "HorizontalLineTo",
                                          "VerticalLineTo", "CurveTo",
                                          "Quadratic", "ClosePath" }
                 THEN "Err" ELSE "Ok"

C9_Witness ==
    /\ op = "token"
    /\ tokens[Len(tokens)].kind = "ClosePath"
    /\ Len(pre.current_line.line) = 1
    /\ ret = "Err"

\* C10: every polyline in the list returned by parse_path, and every
\* polyline returned by parse, has more than one point.
C10_NoDegeneratePolyline ==
    /\ \A i \in 1 .. Len(path_ret) : Len(path_ret[i]) > 1
    /\ result # None => \A i \in 1 .. Len(result[1]) : Len(result[1][i]) > 1

C10_Witness ==
    /\ pc = "done"
    /\ path_ret # <<>>
    /\ result # None
    /\ result[1] # <<>>

\* C11: parse runs parse_path for the attributes named d and for nothing
\* else; the polylines it collects are the returned lists of the parse_path
\* calls one after the other, in document order and in the order of each
\* list, and what it returns is these lists simplified, in the same order.
C11_DocumentOrder ==
    LET RECURSIVE Flat(_)
        Flat(ls) == IF ls = <<>> THEN <<>> ELSE Head(ls) \o Flat(Tail(ls))
        nd == Cardinality({ i \in DOMAIN scanned :
                              scanned[i] = [t |-> "Attribute", id |-> "d"] })
    IN  /\ npaths = nd
        /\ Len(path_rets) = IF pc \in { "path", "panicked" } THEN nd - 1 ELSE nd
        /\ polylines = Flat(path_rets)
        /\ pc = "done"
           => result = Some(Flat([i \in DOMAIN path_rets |-> simplify(path_rets[i])]))

C11_Witness ==
    /\ pc = "done"
    /\ Len(path_rets) = 2
    /\ path_rets[1] # <<>> /\ path_rets[2] # <<>>
    /\ path_rets[1] # path_rets[2]
    /\ Len(result[1]) = 2
    /\ \E i \in DOMAIN scanned : scanned[i].t = "Attribute" /\ scanned[i].id # "d"
    /\ \E i \in DOMAIN scanned : scanned[i].t # "Attribute"

\* C12: a point computed by LineTo, HorizontalLineTo or VerticalLineTo is
\* not appended when both its x and its y difference from the last appended
\* point are below the tolerance 0.5, and no polyline returned by parse_path
\* has two consecutive points that differ by less than 0.5 in both axes.
C12_NearPointsAreSkipped ==
    /\ (op = "token" /\ ret = "Ok" /\ pre.current_line.line # <<>>
          /\ tokens[Len(tokens)].kind \in { "LineTo", "HorizontalLineTo",
                                            "VerticalLineTo" })
       => LET data == tokens[Len(tokens)]
              old  == pre.current_line.line
              p    == old[Len(old)]
              dx   == IF data.kind = "VerticalLineTo" THEN 0
                      ELSE IF data.abs THEN data.x - p.x ELSE data.x
              dy   == IF data.kind = "HorizontalLineTo" THEN 0
                      ELSE IF data.abs THEN data.y - p.y ELSE data.y
          IN  (Abs(dx) < FLATTENING_TOLERANCE /\ Abs(dy) < FLATTENING_TOLERANCE)
              => current_line.line = old
    /\ \A i \in DOMAIN path_ret :
          \A k \in 1 .. Len(path_ret[i]) - 1 :
             ~ (/\ Abs(path_ret[i][k + 1].x - path_ret[i][k].x) < FLATTENING_TOLERANCE
                /\ Abs(path_ret[i][k + 1].y - path_ret[i][k].y) < FLATTENING_TOLERANCE)

\* C13: simplify keeps a 2-point polyline unchanged if and only if its two
\* points differ by more than the tolerance 0.5 in x and by more than 0.5 in
\* y; otherwise it emits nothing for it.
C13_SimplifyTwoPoints ==
    (op = "simplify" /\ Len(polylines) = 1 /\ Len(polylines[1]) = 2)
    => LET cp == polylines[1]
       IN  result = Some(IF /\ Abs(cp[2].x - cp[1].x) > FLATTENING_TOLERANCE
                            /\ Abs(cp[2].y - cp[1].y) > FLATTENING_TOLERANCE
                         THEN << cp >> ELSE <<>>)

\* C14: for the input polylines of at least 3 points simplify emits, in
\* order, exactly one polyline each: a subsequence of the input, never
\* longer, that starts with the input's first vertex and ends with its last
\* vertex; for an input polyline of 0 or 1 points it emits nothing.
C14_SimplifyLongPolylines ==
    (op = "simplify" /\ \A i \in DOMAIN polylines : Len(polylines[i]) # 2)
    => LET Long(i) == Len(polylines[i]) >= 3
           long    == SelectSeq([i \in 1 .. Len(polylines) |-> i], Long)
           emitted == result[1]
       IN  /\ Len(emitted) = Len(long)
           /\ \A k \in DOMAIN long :
                 LET cp == polylines[long[k]]
                     sp == emitted[k]
                 IN  /\ Len(sp) <= Len(cp)
                     /\ Len(sp) >= 2
                     /\ \E f \in [1 .. Len(sp) -> 1 .. Len(cp)] :
                           /\ f[1] = 1
                           /\ f[Len(sp)] = Len(cp)
                           /\ \A n \in 1 .. Len(sp) - 1 : f[n] < f[n + 1]
                           /\ \A n \in 1 .. Len(sp) : sp[n] = cp[f[n]]

C14_Witness ==
    /\ op = "simplify"
    /\ Len(polylines) = 2
    /\ Len(polylines[1]) <= 1
    /\ Len(polylines[2]) = 3
    /\ Len(result[1]) = 1

\* C15: simplify applied to a 3-point polyline whose points are collinear
\* returns the 2-point polyline of the input's first and last point.
C15_SimplifyCollinear ==
    (/\ op = "simplify"
     /\ Len(polylines) = 1
     /\ Len(polylines[1]) = 3
     /\ Cross(polylines[1][1], polylines[1][2], polylines[1][3]) = 0)
    => result = Some(<< << polylines[1][1], polylines[1][3] >> >>)

C15_Witness ==
    /\ op = "simplify"
    /\ polylines = << << CoordinatePair(0, 0), CoordinatePair(1, 0),
                         CoordinatePair(8, 0) >> >>
    /\ result # None
    /\ Len(result[1]) = 1

\* C16: to_dxf emits, in input order, exactly one entity per input polyline
\* of length >= 2 and none for a shorter one: a Line for a 2-point polyline,
\* a Polyline with one vertex per point for a longer one; every point (x, y)
\* appears as (x, -y, 0).
C16_ToDxf ==
    op = "to_dxf"
    => LET Valid(i) == Len(polylines[i]) >= 2
           valid    == SelectSeq([i \in 1 .. Len(polylines) |-> i], Valid)
           entities == drawing[1]
       IN  /\ Len(entities) = Len(valid)
           /\ \A k \in DOMAIN valid :
                 LET cp == polylines[valid[k]]
                     e  == entities[k]
                 IN  IF Len(cp) = 2
                     THEN /\ e.type = "Line"
                          /\ e.p1 = [x |-> cp[1].x, y |-> 0 - cp[1].y, z |-> 0]
                          /\ e.p2 = [x |-> cp[2].x, y |-> 0 - cp[2].y, z |-> 0]
                     ELSE /\ e.type = "Polyline"
                          /\ Len(e.vertices) = Len(cp)
                          /\ \A n \in 1 .. Len(cp) :
                                e.vertices[n] = [x |-> cp[n].x, y |-> 0 - cp[n].y, z |-> 0]

C16_Witness ==
    /\ op = "to_dxf"
    /\ Len(polylines) = 2
    /\ Len(polylines[1]) = 2
    /\ polylines[1][2].y # 0
    /\ Len(polylines[2]) = 3
    /\ Len(drawing[1]) = 2

\* C17: to_svg emits, in input order, exactly one path per input polyline of
\* length >= 2 and none for a shorter one; its data is one move_to to the
\* first point followed by one line_to for each remaining point, in order
\* and with unchanged coordinates.
C17_ToSvg ==
    op = "to_svg"
    => LET Valid(i) == Len(polylines[i]) >= 2
           valid    == SelectSeq([i \in 1 .. Len(polylines) |-> i], Valid)
           paths    == document[1]
       IN  /\ Len(paths) = Len(valid)
           /\ \A k \in DOMAIN valid :
                 LET cp == polylines[valid[k]]
                     d  == paths[k]
                 IN  /\ Len(d) = Len(cp)
                     /\ d[1].cmd = "move_to"
                     /\ \A n \in 2 .. Len(cp) : d[n].cmd = "line_to"
                     /\ \A n \in 1 .. Len(cp) : d[n].x = cp[n].x /\ d[n].y = cp[n].y

C17_Witness ==
    /\ op = "to_svg"
    /\ Len(polylines) = 2
    /\ Len(polylines[1]) = 3
    /\ Len(polylines[2]) = 2
    /\ Len(document[1]) = 2

\* C18: after svg_str_to_polylines has returned 0 no buffer has been freed:
\* the outer buffer at *polylines holds *polylines_len Polyline structs, one
\* per polyline of the result, each pointing to its own inner buffer holding
\* that polyline, and every capacity equals its length.  After the one
\* free_polylines call with the returned pointer and length, the outer
\* buffer and every inner buffer have been freed exactly once.
C18_Ownership ==
    /\ (pc = "ffi_returned" /\ ffi_ret = Some(0)) =>
          LET n     == out.polylines_len[1]
              outer == heap[out.polylines[1]]
          IN  /\ n = Len(result[1])
              /\ Len(heap) = n + 1
              /\ Len(outer.data) = n
              /\ \A i \in DOMAIN heap :
                    heap[i].freed = 0 /\ heap[i].cap = Len(heap[i].data)
              /\ \A i \in 1..n :
                    /\ outer.data[i].ptr # out.polylines[1]
                    /\ heap[outer.data[i].ptr].data = result[1][i]
                    /\ outer.data[i].len = Len(result[1][i])
                    /\ \A j \in 1..n :
                          outer.data[i].ptr = outer.data[j].ptr => i = j
    /\ pc = "freed" =>
          /\ Len(heap) = Len(result[1]) + 1
          /\ \A i \in DOMAIN heap : heap[i].freed = 1

\* two inner buffers and the outer one have been handed out and freed
C18_Witness ==
    /\ pc = "freed"
    /\ op = "free_polylines"
    /\ Len(heap) >= 3
    /\ \A i \in DOMAIN heap : heap[i].freed = 1

\* C19: a relative MoveTo (dx, dy) is resolved against the last point of the
\* in-progress buffer when that buffer is non-empty as the MoveTo arrives,
\* otherwise against prev_end when it is set, otherwise (dx, dy) is the
\* absolute target; the resolved target is the sole point of the new
\* in-progress buffer.
C19_RelativeMoveToPriority ==
    (op = "token" /\ ret = "Ok" /\ tokens[Len(tokens)].kind = "MoveTo"
        /\ ~ tokens[Len(tokens)].abs)
    => LET data == tokens[Len(tokens)]
           old  == pre.current_line
           base == IF old.line # <<>> THEN Last(old.line)
                   ELSE IF old.prev_end # None THEN old.prev_end[1]
                   ELSE CoordinatePair(0, 0)
       IN  current_line.line =
               << CoordinatePair(base.x + data.x, base.y + data.y) >>

\* C20: LineTo with a non-empty in-progress buffer whose last point is p
\* resolves to (x, y) when absolute and to (p.x + x, p.y + y) when relative,
\* and the resolved target is appended whenever it differs from p by at
\* least the tolerance 0.5 in x or in y.
C20_LineToAppendsResolvedTarget ==
    (op = "token" /\ ret = "Ok" /\ tokens[Len(tokens)].kind = "LineTo"
        /\ pre.current_line.line # <<>>)
    => LET data   == tokens[Len(tokens)]
           old    == pre.current_line.line
           p      == Last(old)
           target == IF data.abs THEN CoordinatePair(data.x, data.y)
                     ELSE CoordinatePair(p.x + data.x, p.y + data.y)
       IN  (\/ Abs(target.x - p.x) >= FLATTENING_TOLERANCE
            \/ Abs(target.y - p.y) >= FLATTENING_TOLERANCE)
           => current_line.line = Append(old, target)

\* C21: CurveTo or Quadratic with a non-empty in-progress buffer whose last
\* point is c leaves the points already in the buffer unchanged, appends at
\* least one point, and afterwards the buffer's last point is the curve end
\* point: (x, y) when absolute and (c.x + x, c.y + y) when relative.
C21_CurveEndsAtEndPoint ==
    (op = "token" /\ ret = "Ok" /\ pre.current_line.line # <<>>
        /\ tokens[Len(tokens)].kind \in { "CurveTo", "Quadratic" })
    => LET data == tokens[Len(tokens)]
           old  == pre.current_line.line
           c    == Last(old)
           to   == IF data.abs THEN CoordinatePair(data.x, data.y)
                   ELSE CoordinatePair(c.x + data.x, c.y + data.y)
       IN  /\ Len(current_line.line) > Len(old)
           /\ SubSeq(current_line.line, 1, Len(old)) = old
           /\ Last(current_line.line) = to
           /\ current_line.prev_end = pre.current_line.prev_end

\* C22: whenever parse_path_token returns Err, the in-progress buffer,
\* prev_end and the output list `lines` are exactly as they were before the
\* call.
C22_ErrLeavesStateUnchanged ==
    (op = "token" /\ ret = "Err")
    => /\ current_line.line = pre.current_line.line
       /\ current_line.prev_end = pre.current_line.prev_end
       /\ lines = pre.lines

\* Err of an unsupported token on a buffer that holds two points
C22_Witness ==
    /\ op = "token"
    /\ ret = "Err"
    /\ tokens[Len(tokens)].kind = "SmoothQuadratic"
    /\ Len(pre.current_line.line) = 2
    /\ Len(current_line.line) = 2

\* C23: CurrentLine::finish returns exactly the points appended since the
\* previous finish (or since creation), in insertion order, and leaves the
\* in-progress buffer empty, so that is_valid is false immediately
\* afterwards; is_valid is true exactly when the buffer holds more than 1
\* point.
C23_Finish ==
    /\ finished = due
    /\ op = "finish" => (finished # None /\ current_line.line = <<>>)
    /\ op = "is_valid" =>
          /\ is_valid_ret = Some(Len(current_line.line) > 1)
          /\ Len(current_line.line) = Len(appended)
          /\ (appended = <<>> /\ finished # None) => is_valid_ret = Some(FALSE)

\* is_valid called right after a finish that returned two points; prev_end
\* is set, so an earlier finish has returned a closed buffer
C23_Witness ==
    /\ pc = "line"
    /\ op = "is_valid"
    /\ is_valid_ret = Some(FALSE)
    /\ finished # None
    /\ Len(finished[1]) = 2
    /\ finished[1][1] # finished[1][2]
    /\ current_line.prev_end # None
    /\ appended = <<>>

\* C24: in the root crate, when parse_path reaches EndOfStream and the
\* in-progress buffer holds at least 2 points, that buffer is the last
\* polyline of the returned list, after the subpaths committed before.
C24_RootEndOfStreamCommit ==
    (pc = "root_returned" /\ op = "end_of_stream"
        /\ Len(pre.current_line.line) >= 2)
    => path_ret = Append(pre.lines, pre.current_line.line)

\* C25: svg_str_to_polylines returns 0 exactly when parse yields at least
\* one polyline, and then *polylines_len is the number of polylines and
\* *polylines points to that many Polyline records whose len fields are the
\* point counts of the polylines; it returns 1 exactly when parse yields no
\* polyline, and then neither output is written and no buffer is allocated.
C25_ReturnCode ==
    pc = "ffi_returned" =>
       /\ ffi_ret = IF Len(result[1]) >= 1 THEN Some(0) ELSE Some(1)
       /\ ffi_ret = Some(0) =>
             /\ out.polylines_len = Some(Len(result[1]))
             /\ out.polylines # None
             /\ out.polylines[1] \in DOMAIN heap
             /\ LET records == heap[out.polylines[1]].data
                IN  /\ Len(records) = Len(result[1])
                    /\ \A i \in DOMAIN records :
                          records[i].len = Len(result[1][i])
       /\ ffi_ret = Some(1) =>
             /\ out = Unwritten
             /\ heap = EmptyHeap

\* a document with a path element of which parse returns no polyline
C25_Witness ==
    /\ pc = "ffi_returned"
    /\ op = "svg_str_to_polylines"
    /\ ffi_ret = Some(1)
    /\ npaths >= 1
    /\ result = Some(<<>>)
    /\ out = Unwritten

\* C26: write_dxf(polylines, path) with a path whose extension is dxf
\* writes the drawing to `path` and to no other file; with any other
\* extension it writes no file.
C26_WriteDxfWritesToPath ==
    (op = "write_dxf" /\ file_arg # None)
    => files = IF file_arg[1].ext = "dxf" THEN { file_arg[1] } ELSE {}

\* C27: parse has no effect other than returning its result: it creates or
\* overwrites no file, and it returns its result whether or not the working
\* directory is writable.
C27_ParseWritesNoFile ==
    /\ files = {}
    /\ op = "finish" => (pc = "done" /\ result # None)

=============================================================================
